---- MODULE Spec2Model ----
(***************************************************************************)
(* A model of features/models.py: the FeatureState priority comparison     *)
(* (FeatureState.__gt__, FeatureSegment.__lt__) and the persistence        *)
(* handlers Feature.save and FeatureState.save with the FeatureStateValue  *)
(* they materialise and the webhook call they make.                        *)
(*                                                                         *)
(* Four specifications share the variables:                                *)
(*   SpecCmp    the comparison applied to stored FeatureStates,            *)
(*   Spec       the features' lifecycle, each handler one step,            *)
(*   SpecValue  the typed values, each handler one step,                   *)
(*   SpecConc   the handlers' queries interleaved between requests.        *)
(***************************************************************************)
EXTENDS Integers, Sequences, FiniteSets, TLC

VARIABLES
    features,       \* Feature rows: stored feature -> its fields
    featureStates,  \* FeatureState rows (a set of records, id is the pk)
    fsv,            \* FeatureStateValue rows: FeatureState id -> value record
    webhooks,       \* trigger_feature_state_change_webhooks calls of the last step
    nextId,         \* next FeatureState primary key
    last,           \* what the last completed handler did and returned
    saver,          \* SpecConc: the request running Feature.save
    workers,        \* SpecConc: the requests running FeatureState.save
    priority,       \* FeatureSegment.priority of each FeatureSegment
    candidates,     \* SpecCmp: the FeatureStates under comparison
    cmp             \* SpecCmp: the last comparison and its outcome

vars == <<features, featureStates, fsv, webhooks, nextId, last, saver, workers,
          priority, candidates, cmp>>

dbVars == <<features, featureStates, fsv, webhooks, nextId>>
concVars == <<saver, workers>>
cmpVars == <<candidates, cmp>>

None == "None"

(***************************************************************************)
(* The rows other applications own: projects with their environments,      *)
(* identities, feature segments.  The persistence specifications follow    *)
(* one feature; the comparison also meets states of a second one.          *)
(***************************************************************************)
Projects == {"P", "Q"}
ProjectEnvironments == [p \in Projects |-> IF p = "P" THEN <<"e1", "e2">> ELSE <<"e3">>]
SeqRange(s) == {s[i] : i \in 1..Len(s)}
Environments == UNION {SeqRange(ProjectEnvironments[p]) : p \in Projects}
Features == {"f1"}
Identities == {"i1", "i2"}
FeatureSegmentIds == {"s1", "s2", "s3"}

(***************************************************************************)
(* Bounds of the model.                                                    *)
(***************************************************************************)
MaxPriority == 3
MaxCandidates == 4

(***************************************************************************)
(* Python truth value of what the comparisons return: None, False, True.   *)
(***************************************************************************)
PyNone == "PyNone"
PyTrue == "PyTrue"
PyFalse == "PyFalse"
PyBool(b) == IF b THEN PyTrue ELSE PyFalse
Truthy(v) == v = PyTrue

(***************************************************************************)
(* FeatureSegment.__lt__(self, other): `other and self.priority >          *)
(* other.priority`.  self is a FeatureSegment, other a FeatureSegment or   *)
(* None; a model instance is truthy, None is returned as it is.            *)
(***************************************************************************)
\* the comparison the docstring warns against: priority LESS than the other's
FeatureSegment__lt__Inverted(self, other) ==
    IF other = None THEN PyNone
    ELSE PyBool(priority[self] < priority[other])

\* `not other or ...`: None counted as lower than every feature segment
FeatureSegment__lt__NoneIsLess(self, other) ==
    IF other = None THEN PyTrue
    ELSE PyBool(priority[self] > priority[other])

FeatureSegment__lt__(self, other) ==
    IF other = None THEN PyNone
    ELSE PyBool(priority[self] > priority[other])

(***************************************************************************)
(* FeatureState.__gt__(self, other).  The outcome is either a raised       *)
(* ValueError or the returned boolean.                                     *)
(***************************************************************************)
Raise == [raised |-> TRUE, value |-> FALSE]
Return(b) == [raised |-> FALSE, value |-> b]

\* the segment branch without its `other.identity` test
FeatureState__gt__NoIdentityTest(self, other) ==
    IF self.environment # other.environment THEN Raise
    ELSE IF self.feature # other.feature THEN Raise
    ELSE IF self.identity # None
         THEN IF other.identity # None /\ self.identity # other.identity
              THEN Raise
              ELSE Return(TRUE)
    ELSE IF self.feature_segment # None
         THEN Return(~Truthy(FeatureSegment__lt__(self.feature_segment,
                                                  other.feature_segment)))
    ELSE Return(~(other.feature_segment # None \/ other.identity # None))

\* the environment-default branch without its `other.feature_segment` test
FeatureState__gt__DefaultBeatsSegment(self, other) ==
    IF self.environment # other.environment THEN Raise
    ELSE IF self.feature # other.feature THEN Raise
    ELSE IF self.identity # None
         THEN IF other.identity # None /\ self.identity # other.identity
              THEN Raise
              ELSE Return(TRUE)
    ELSE IF self.feature_segment # None
         THEN Return(~(other.identity # None
                       \/ Truthy(FeatureSegment__lt__(self.feature_segment,
                                                      other.feature_segment))))
    ELSE Return(~(other.identity # None))

FeatureState__gt__(self, other) ==
    IF self.environment # other.environment THEN Raise
    ELSE IF self.feature # other.feature THEN Raise
    ELSE IF self.identity # None
         THEN IF other.identity # None /\ self.identity # other.identity
              THEN Raise
              ELSE Return(TRUE)
    ELSE IF self.feature_segment # None
         THEN Return(~(other.identity # None
                       \/ Truthy(FeatureSegment__lt__(self.feature_segment,
                                                      other.feature_segment))))
    ELSE Return(~(other.feature_segment # None \/ other.identity # None))

(***************************************************************************)
(* FeatureState.Meta.constraints, as predicates of a set of rows.          *)
(***************************************************************************)
unique_for_feature_segment(rows) ==
    \A a, b \in rows :
        (a # b /\ a.identity = None /\ b.identity = None)
            => <<a.environment, a.feature, a.feature_segment>>
                 # <<b.environment, b.feature, b.feature_segment>>
                \/ a.feature_segment = None

unique_for_identity(rows) ==
    \A a, b \in rows :
        (a # b /\ a.feature_segment = None /\ b.feature_segment = None)
            => <<a.environment, a.feature, a.identity>>
                 # <<b.environment, b.feature, b.identity>>
                \/ a.identity = None

unique_for_environment_Dropped(rows) == TRUE

unique_for_environment(rows) ==
    \A a, b \in rows :
        (a # b /\ a.identity = None /\ b.identity = None
              /\ a.feature_segment = None /\ b.feature_segment = None)
            => <<a.environment, a.feature>> # <<b.environment, b.feature>>

Constraints(rows) ==
    /\ unique_for_feature_segment(rows)
    /\ unique_for_identity(rows)
    /\ unique_for_environment(rows)

(***************************************************************************)
(* The state after construction: empty tables, no request in flight.       *)
(***************************************************************************)
EmptyFn == [x \in {} |-> None]
Idle == [pc |-> "idle"]
NoOp == [op |-> "none", result |-> "ok", saves |-> <<>>]
Workers == {"w1", "w2"}

InitDB ==
    /\ features = EmptyFn
    /\ featureStates = {}
    /\ fsv = EmptyFn
    /\ webhooks = <<>>
    /\ nextId = 1
    /\ last = NoOp

InitConc ==
    /\ saver = Idle
    /\ workers = [w \in Workers |-> Idle]

\* OrderedModelBase numbers the feature segments of one (feature, environment)
\* with pairwise distinct priorities; the model's feature segments form one group.
Priorities ==
    {p \in [FeatureSegmentIds -> 1..MaxPriority] :
        \A s, t \in FeatureSegmentIds : s # t => p[s] # p[t]}

(***************************************************************************)
(* SpecCmp: FeatureState.__gt__ applied to stored FeatureStates.  The      *)
(* stored rows are any the constraints admit, each an environment default, *)
(* a segment override or an identity override: all six kinds for (f1, e1), *)
(* a default and an identity override for two neighbouring scopes.         *)
(***************************************************************************)
Row(f, e, i, s) ==
    [feature |-> f, environment |-> e, identity |-> i, feature_segment |-> s]

CmpRows ==
    {Row("f1", "e1", i, None) : i \in Identities \cup {None}}
    \cup {Row("f1", "e1", None, s) : s \in FeatureSegmentIds}
    \cup {Row("f2", "e1", i, None) : i \in {None, "i1"}}
    \cup {Row("f1", "e2", i, None) : i \in {None, "i1"}}

InitCmp ==
    /\ InitDB
    /\ InitConc
    /\ priority \in Priorities
    /\ candidates \in {S \in SUBSET CmpRows :
                          /\ Cardinality(S) \in 1..MaxCandidates
                          /\ Constraints(S)}
    /\ cmp = NoOp

Compare(a, b) ==
    /\ cmp' = [op |-> "gt", self |-> a, other |-> b,
               outcome |-> FeatureState__gt__(a, b)]
    /\ UNCHANGED <<dbVars, last, concVars, priority, candidates>>

NextCmp == \E a, b \in candidates : Compare(a, b)

SpecCmp == InitCmp /\ [][NextCmp]_vars

(***************************************************************************)
(* Typed values.  A nullable column holds <<>> (NULL) or <<v>>.            *)
(***************************************************************************)
INTEGER_T == "int"
STRING_T == "unicode"
BOOLEAN_T == "bool"
Null == <<>>
Some(v) == <<v>>

InitialValues == {None, "", "true", "42"}

\* features.utils: the type a raw initial value parses to, with the fallback
\* to string; the parsed boolean; the parsed integer
get_value_type(value) ==
    IF value \in {"42", "7"} THEN INTEGER_T
    ELSE IF value \in {"true", "True", "false", "False"} THEN BOOLEAN_T
    ELSE STRING_T

get_boolean_from_string(value) == value \in {"true", "True"}

get_integer_from_string(value) ==
    IF value = "42" THEN 42 ELSE IF value = "7" THEN 7 ELSE 0

\* FeatureStateValue's column defaults: type STRING, every slot NULL
FeatureStateValue(defaults) ==
    [type |-> IF "type" \in DOMAIN defaults THEN defaults.type ELSE STRING_T,
     boolean_value |-> IF "boolean_value" \in DOMAIN defaults
                       THEN Some(defaults.boolean_value) ELSE Null,
     integer_value |-> IF "integer_value" \in DOMAIN defaults
                       THEN Some(defaults.integer_value) ELSE Null,
     string_value |-> IF "string_value" \in DOMAIN defaults
                      THEN Some(defaults.string_value) ELSE Null]

\* FeatureState._get_feature_state_defaults; a stored initial_value is a string
\* or NULL, so `is False` never holds and the empty string counts as unset.
\* A returned None is get_or_create's "no defaults", the empty record here.
NoDefaults == [x \in {} |-> None]
get_feature_state_defaults(feature) ==
    IF feature.initial_value \in {None, ""} THEN NoDefaults
    ELSE LET value == feature.initial_value
             type == get_value_type(value)
         IN  IF type = BOOLEAN_T
             THEN [type |-> type, boolean_value |-> get_boolean_from_string(value)]
             ELSE IF type = INTEGER_T
             THEN [type |-> type, integer_value |-> get_integer_from_string(value)]
             ELSE [type |-> type, string_value |-> value]

\* what a separate update of a FeatureStateValue may store
TypedValues ==
    {FeatureStateValue([type |-> BOOLEAN_T, boolean_value |-> FALSE]),
     FeatureStateValue([type |-> INTEGER_T, integer_value |-> 7])}

(***************************************************************************)
(* The database as a value, so that a handler is a function of it.         *)
(***************************************************************************)
DB == [features |-> features, featureStates |-> featureStates,
       fsv |-> fsv, nextId |-> nextId]

Ids(rows) == {r.id : r \in rows}
Restrict(f, S) == [x \in DOMAIN f \cap S |-> f[x]]
Put(f, k, v) == [x \in DOMAIN f \cup {k} |-> IF x = k THEN v ELSE f[x]]

\* a handler's outcome: the database it leaves, the webhook calls it made, what
\* it returned or raised, and the FeatureState saves it completed
Outcome(db, result, hooks, saves) ==
    [db |-> db, result |-> result, hooks |-> hooks, saves |-> saves]

\* FeatureStateValue.objects.update_or_create, which save() does not use
FeatureStateValue_update_or_create(table, id, defaults) ==
    Put(table, id, FeatureStateValue(defaults))

\* FeatureStateValue.objects.get_or_create(feature_state=self, defaults=...)
FeatureStateValue_get_or_create(table, id, defaults) ==
    IF id \in DOMAIN table THEN table
    ELSE Put(table, id, FeatureStateValue(defaults))

\* the existence pre-check of FeatureState.save
PreCheckRaises(db, self) ==
    /\ self.id = 0
    /\ \E r \in db.featureStates :
          r.environment = self.environment /\ r.feature = self.feature
    /\ ~(self.identity # None \/ self.feature_segment # None)

\* super().save(): INSERT for a new object, UPDATE for a stored one; the rows
\* it would leave, which the constraints accept or reject
RowsAfterSave(db, self) ==
    IF self.id = 0
    THEN db.featureStates \cup {[self EXCEPT !.id = db.nextId]}
    ELSE {r \in db.featureStates : r.id # self.id} \cup {self}

\* super(FeatureState, self).save(): the constraints reject the write with an
\* IntegrityError or the row is stored, a new one under the next primary key
FeatureState_super_save(db, self) ==
    LET rows == RowsAfterSave(db, self)
        id == IF self.id = 0 THEN db.nextId ELSE self.id
    IN  IF ~Constraints(rows)
        THEN Outcome(db, "IntegrityError", <<>>, <<>>)
        ELSE Outcome([db EXCEPT !.featureStates = rows,
                                !.nextId = IF self.id = 0 THEN @ + 1 ELSE @],
                     "ok", <<>>, <<[id |-> id, created |-> self.id = 0]>>)

\* what follows super().save(): the FeatureStateValue is created if the row
\* has none, and the webhooks are triggered.  A row deleted since fails the
\* value's foreign key.
FeatureState_after_save(db, id, feature) ==
    IF id \notin Ids(db.featureStates)
    THEN Outcome(db, "IntegrityError", <<>>, <<>>)
    ELSE Outcome([db EXCEPT !.fsv = FeatureStateValue_get_or_create(
                                        @, id,
                                        get_feature_state_defaults(db.features[feature]))],
                 "ok", <<id>>, <<>>)

\* FeatureState.save from super().save() on
FeatureState_save_write(db, self) ==
    LET w == FeatureState_super_save(db, self)
        a == FeatureState_after_save(w.db, w.saves[1].id, self.feature)
    IN  IF w.result # "ok" THEN w
        ELSE Outcome(a.db, a.result, a.hooks, w.saves)

\* a save that calls the webhooks for a newly created row only
FeatureState_save_NotifyCreatedOnly(db, self) ==
    IF PreCheckRaises(db, self)
    THEN Outcome(db, "ValidationError", <<>>, <<>>)
    ELSE LET o == FeatureState_save_write(db, self)
         IN  IF self.id = 0 THEN o ELSE [o EXCEPT !.hooks = <<>>]

\* FeatureState.save
FeatureState_save(db, self) ==
    IF PreCheckRaises(db, self)
    THEN Outcome(db, "ValidationError", <<>>, <<>>)
    ELSE FeatureState_save_write(db, self)

(***************************************************************************)
(* Feature.save                                                            *)
(***************************************************************************)
EnvironmentsOf(project) == SeqRange(ProjectEnvironments[project])

\* the rows a moved feature loses: FeatureState.objects.filter(feature=self,
\* environment__in=old_feature.project.environments.all())
OldFeatureStates(db, f, self) ==
    IF f \in DOMAIN db.features /\ db.features[f].project # self.project
    THEN {r \in db.featureStates :
             r.feature = f /\ r.environment \in EnvironmentsOf(db.features[f].project)}
    ELSE {}

\* .delete(), which cascades to the rows' FeatureStateValues
DeleteFeatureStates(db, rows) ==
    [db EXCEPT !.featureStates = @ \ rows,
               !.fsv = Restrict(@, DOMAIN @ \ Ids(rows))]

\* feature_state_defaults: `enabled` for a feature that has no pk yet
FeatureStateDefaults(db, f, self) ==
    IF f \in DOMAIN db.features THEN NoDefaults
    ELSE [enabled |-> self.default_enabled]

\* super(Feature, self).save()
Feature_super_save(db, f, self) == [db EXCEPT !.features = Put(@, f, self)]

\* FeatureState.objects.update_or_create(feature=self, environment=env,
\*     identity=None, feature_segment=None, defaults=feature_state_defaults)
update_or_create(db, f, env, defaults) ==
    LET found == {r \in db.featureStates :
                     /\ r.feature = f /\ r.environment = env
                     /\ r.identity = None /\ r.feature_segment = None}
    IN  IF found # {}
        THEN LET obj == CHOOSE r \in found : TRUE
             IN  FeatureState_save(
                     db, IF "enabled" \in DOMAIN defaults
                         THEN [obj EXCEPT !.enabled = defaults.enabled]
                         ELSE obj)
        ELSE FeatureState_save(
                 db, [id |-> 0, feature |-> f, environment |-> env,
                      identity |-> None, feature_segment |-> None,
                      enabled |-> IF "enabled" \in DOMAIN defaults
                                  THEN defaults.enabled ELSE FALSE])

\* the loop over self.project.environments.all(); an exception ends it
RECURSIVE SaveEnvironments(_, _, _, _, _)
SaveEnvironments(o, f, envs, i, defaults) ==
    IF i > Len(envs) THEN o
    ELSE LET r == update_or_create(o.db, f, envs[i], defaults)
         IN  IF r.result # "ok"
             THEN Outcome(o.db, r.result, o.hooks, o.saves)
             ELSE SaveEnvironments(
                      Outcome(r.db, "ok", o.hooks \o r.hooks, o.saves \o r.saves),
                      f, envs, i + 1, defaults)

\* a delete that spares the old project's segment and identity overrides
Feature_save_DeleteDefaultsOnly(db, f, self) ==
    LET db1 == DeleteFeatureStates(
                   db, {r \in OldFeatureStates(db, f, self) :
                           r.identity = None /\ r.feature_segment = None})
        db2 == Feature_super_save(db1, f, self)
    IN  SaveEnvironments(Outcome(db2, "ok", <<>>, <<>>), f,
                         ProjectEnvironments[self.project], 1,
                         FeatureStateDefaults(db, f, self))

Feature_save(db, f, self) ==
    LET db1 == DeleteFeatureStates(db, OldFeatureStates(db, f, self))
        db2 == Feature_super_save(db1, f, self)
    IN  SaveEnvironments(Outcome(db2, "ok", <<>>, <<>>), f,
                         ProjectEnvironments[self.project], 1,
                         FeatureStateDefaults(db, f, self))

(***************************************************************************)
(* Spec: every handler runs to completion as one step.                     *)
(***************************************************************************)
MaxId == 4

Write(o) ==
    /\ features' = o.db.features
    /\ featureStates' = o.db.featureStates
    /\ fsv' = o.db.fsv
    /\ nextId' = o.db.nextId
    /\ webhooks' = o.hooks

Commit(o) ==
    /\ o.db.nextId <= MaxId + 1
    /\ Write(o)

FeatureObject(project, initial_value, default_enabled) ==
    [project |-> project, initial_value |-> initial_value,
     default_enabled |-> default_enabled]

FeatureStateObject(f, e, i, s) ==
    [id |-> 0, feature |-> f, environment |-> e, identity |-> i,
     feature_segment |-> s, enabled |-> FALSE]

\* what `last` tells of a completed Feature.save: the project the feature had
\* and the number of rows the delete removed
FeatureSaved(o, f, self) ==
    [op |-> "Feature.save", result |-> o.result, saves |-> o.saves,
     feature |-> f,
     old_project |-> IF f \in DOMAIN features THEN features[f].project ELSE None,
     deleted |-> Cardinality(OldFeatureStates(DB, f, self))]

FeatureStateSaved(o, self) ==
    [op |-> "FeatureState.save", result |-> o.result, saves |-> o.saves,
     self |-> self]

FeatureSave(f, project, initial_value, default_enabled) ==
    LET self == FeatureObject(project, initial_value, default_enabled)
        o == Feature_save(DB, f, self)
    IN  /\ Commit(o)
        /\ last' = FeatureSaved(o, f, self)
        /\ UNCHANGED <<concVars, priority, cmpVars>>

\* a new FeatureState of a stored feature: a default, a segment override or an
\* identity override
FeatureStateCreate(f, e, i, s) ==
    LET self == FeatureStateObject(f, e, i, s)
        o == FeatureState_save(DB, self)
    IN  /\ f \in DOMAIN features
        /\ i = None \/ s = None
        /\ Commit(o)
        /\ last' = FeatureStateSaved(o, self)
        /\ UNCHANGED <<concVars, priority, cmpVars>>

\* a stored FeatureState saved again
FeatureStateUpdate(r) ==
    LET o == FeatureState_save(DB, r)
    IN  /\ Commit(o)
        /\ last' = FeatureStateSaved(o, r)
        /\ UNCHANGED <<concVars, priority, cmpVars>>

\* a FeatureStateValue updated separately (Model.save of the value row)
FeatureStateValueSave(id, v) ==
    /\ id \in DOMAIN fsv
    /\ fsv' = [fsv EXCEPT ![id] = v]
    /\ webhooks' = <<>>
    /\ last' = [op |-> "FeatureStateValue.save", result |-> "ok", saves |-> <<>>]
    /\ UNCHANGED <<features, featureStates, nextId, concVars, priority, cmpVars>>

Init ==
    /\ InitDB
    /\ InitConc
    /\ priority = [s \in FeatureSegmentIds |-> 1]
    /\ candidates = {}
    /\ cmp = NoOp

\* Spec: the features' lifecycle.  Features are created, saved again and moved
\* between the projects; defaults and overrides are created in any environment.
Next ==
    \/ \E f \in Features, p \in Projects, d \in BOOLEAN : FeatureSave(f, p, None, d)
    \/ \E f \in Features, e \in Environments,
          i \in {None, "i1"}, s \in {None, "s1"} : FeatureStateCreate(f, e, i, s)
    \/ \E r \in featureStates : FeatureStateUpdate(r)

Spec == Init /\ [][Next]_vars

\* SpecValue: the typed values.  A feature of project P has its initial value
\* changed, its defaults and an identity override are saved again and their
\* values updated separately.
NextValue ==
    \/ \E f \in Features, v \in InitialValues : FeatureSave(f, "P", v, FALSE)
    \/ \E f \in Features, e \in EnvironmentsOf("P") :
          FeatureStateCreate(f, e, "i1", None)
    \/ \E r \in featureStates : FeatureStateUpdate(r)
    \/ \E id \in DOMAIN fsv, v \in TypedValues : FeatureStateValueSave(id, v)

SpecValue == Init /\ [][NextValue]_vars

(***************************************************************************)
(* SpecConc: requests run side by side, a step being one query (or the one *)
(* transaction update_or_create opens).  No handler opens a transaction of *)
(* its own, so every step's writes are visible to the other requests.      *)
(***************************************************************************)

MaxConcId == 3

CommitConc(o) ==
    /\ o.db.nextId <= MaxConcId + 1
    /\ Write(o)

\* FeatureState.save, lines 325-334: the pre-check raises, or the request goes
\* on to super().save()
BeginFeatureStateSave(w, f, e, i, s) ==
    LET self == FeatureStateObject(f, e, i, s)
    IN  /\ workers[w].pc = "idle"
        /\ f \in DOMAIN features
        /\ i = None \/ s = None
        /\ IF PreCheckRaises(DB, self)
           THEN /\ last' = FeatureStateSaved(Outcome(DB, "ValidationError", <<>>, <<>>), self)
                /\ UNCHANGED workers
           ELSE /\ workers' = [workers EXCEPT ![w] = [pc |-> "save", self |-> self]]
                /\ UNCHANGED last
        /\ webhooks' = <<>>
        /\ UNCHANGED <<features, featureStates, fsv, nextId, saver, priority, cmpVars>>

\* line 336: the insert, which the constraints may reject
FeatureStateSuperSave(w) ==
    LET self == workers[w].self
        o == FeatureState_super_save(DB, self)
    IN  /\ workers[w].pc = "save"
        /\ CommitConc(o)
        /\ IF o.result # "ok"
           THEN /\ workers' = [workers EXCEPT ![w] = Idle]
                /\ last' = FeatureStateSaved(o, self)
           ELSE /\ workers' = [workers EXCEPT ![w] =
                                  [pc |-> "after", self |-> self, saves |-> o.saves]]
                /\ UNCHANGED last
        /\ UNCHANGED <<saver, priority, cmpVars>>

\* lines 342-346: the value and the webhooks
FeatureStateAfterSave(w) ==
    LET self == workers[w].self
        o == FeatureState_after_save(DB, workers[w].saves[1].id, self.feature)
    IN  /\ workers[w].pc = "after"
        /\ CommitConc(o)
        /\ workers' = [workers EXCEPT ![w] = Idle]
        /\ last' = FeatureStateSaved(
                       Outcome(o.db, o.result, o.hooks, workers[w].saves), self)
        /\ UNCHANGED <<saver, priority, cmpVars>>

\* Feature.save, lines 73-83: the old feature is read and, if the project
\* differs, the FeatureStates of the old project's environments are deleted
BeginFeatureSave(f, project, initial_value, default_enabled) ==
    LET self == FeatureObject(project, initial_value, default_enabled)
        db1 == DeleteFeatureStates(DB, OldFeatureStates(DB, f, self))
    IN  /\ saver.pc = "idle"
        /\ CommitConc(Outcome(db1, "ok", <<>>, <<>>))
        /\ saver' = [pc |-> "super", feature |-> f, self |-> self,
                     defaults |-> FeatureStateDefaults(DB, f, self),
                     done |-> FeatureSaved(Outcome(db1, "ok", <<>>, <<>>), f, self)]
        /\ UNCHANGED <<last, workers, priority, cmpVars>>

\* line 85: the feature row is written
FeatureSuperSave ==
    /\ saver.pc = "super"
    /\ CommitConc(Outcome(Feature_super_save(DB, saver.feature, saver.self),
                      "ok", <<>>, <<>>))
    /\ saver' = [saver EXCEPT !.pc = "envs"] @@ [i |-> 1]
    /\ UNCHANGED <<last, workers, priority, cmpVars>>

\* lines 89-97: one turn of the loop; the handler returns after the last
\* environment, or ends with the exception update_or_create raised
FeatureSaveEnvironment ==
    LET envs == ProjectEnvironments[saver.self.project]
        o == update_or_create(DB, saver.feature, envs[saver.i], saver.defaults)
        saves == saver.done.saves \o o.saves
    IN  /\ saver.pc = "envs"
        /\ CommitConc(o)
        /\ IF o.result # "ok" \/ saver.i = Len(envs)
           THEN /\ saver' = Idle
                /\ last' = [saver.done EXCEPT !.result = o.result, !.saves = saves]
           ELSE /\ saver' = [saver EXCEPT !.i = @ + 1, !.done.saves = saves]
                /\ UNCHANGED last
        /\ UNCHANGED <<workers, priority, cmpVars>>

NextConc ==
    \/ \E f \in Features, p \in Projects : BeginFeatureSave(f, p, None, FALSE)
    \/ FeatureSuperSave
    \/ FeatureSaveEnvironment
    \/ \E w \in Workers, f \in Features, e \in Environments :
          BeginFeatureStateSave(w, f, e, None, None)
    \/ \E w \in Workers : FeatureStateSuperSave(w)
    \/ \E w \in Workers : FeatureStateAfterSave(w)

SpecConc == Init /\ [][NextConc]_vars

(***************************************************************************)
(* Claims about the comparison (SpecCmp).                                  *)
(***************************************************************************)
IsDefault(r) == r.identity = None /\ r.feature_segment = None
IsSegmentOverride(r) == r.identity = None /\ r.feature_segment # None
IsIdentityOverride(r) == r.identity # None /\ r.feature_segment = None
SameScope(a, b) == a.feature = b.feature /\ a.environment = b.environment

Outranks(a, b) == FeatureState__gt__(a, b) = Return(TRUE)

\* one default, segment overrides of pairwise distinct priorities, at most one
\* identity override, all of one (feature, environment)
ValidCandidateSet(S) ==
    /\ \A a, b \in S : SameScope(a, b)
    /\ \A a \in S : IsDefault(a) \/ IsSegmentOverride(a) \/ IsIdentityOverride(a)
    /\ Cardinality({a \in S : IsDefault(a)}) = 1
    /\ Cardinality({a \in S : IsIdentityOverride(a)}) <= 1
    /\ \A a, b \in S : (IsSegmentOverride(a) /\ IsSegmentOverride(b) /\ a # b)
                          => priority[a.feature_segment] # priority[b.feature_segment]

\* the direct rule: identity override, else smallest priority number, else default
DirectWinner(S) ==
    IF \E a \in S : IsIdentityOverride(a)
    THEN CHOOSE a \in S : IsIdentityOverride(a)
    ELSE IF \E a \in S : IsSegmentOverride(a)
    THEN CHOOSE a \in S :
            /\ IsSegmentOverride(a)
            /\ \A b \in S : IsSegmentOverride(b)
                  => priority[a.feature_segment] <= priority[b.feature_segment]
    ELSE CHOOSE a \in S : IsDefault(a)

Winners(S) == {c \in S : \A o \in S \ {c} : Outranks(c, o)}

\* C1: in every valid candidate set exactly one candidate outranks every other
\* one under __gt__, and it is the candidate the direct rule selects: the
\* identity override, else the segment override of smallest priority number,
\* else the default.
C1_UniqueWinner ==
    ValidCandidateSet(candidates)
        => Winners(candidates) = {DirectWinner(candidates)}

C1_Witness ==
    /\ ValidCandidateSet(candidates)
    /\ Cardinality(candidates) = 3
    /\ ~ \E a \in candidates : IsIdentityOverride(a)
    /\ cmp.op = "gt"
    /\ cmp.self = DirectWinner(candidates)
    /\ IsSegmentOverride(cmp.self) /\ IsSegmentOverride(cmp.other)
    /\ cmp.self # cmp.other
    /\ cmp.outcome = Return(TRUE)

\* C2: an identity-scoped state outranks every segment override and the default
\* of its feature and environment, whatever the priority, and none of them
\* outranks it.
C2_IdentityBeatsAll ==
    \A a, b \in candidates :
        (SameScope(a, b) /\ a.identity # None /\ b.identity = None)
            => /\ FeatureState__gt__(a, b) = Return(TRUE)
               /\ FeatureState__gt__(b, a) = Return(FALSE)

C2_Witness ==
    /\ cmp.op = "gt"
    /\ IsIdentityOverride(cmp.self)
    /\ IsSegmentOverride(cmp.other)
    /\ SameScope(cmp.self, cmp.other)
    /\ priority[cmp.other.feature_segment] = 1
    /\ cmp.outcome = Return(TRUE)

DefaultsOf(rows, f, e) ==
    {r \in rows : r.feature = f /\ r.environment = e /\ IsDefault(r)}

\* C5: a new FeatureState with no identity and no segment override is rejected
\* with a validation error, the rows left as they were, when its environment
\* already has a default for the feature, and is stored when it has none.
C5_DefaultCreation ==
    [][(/\ last'.op = "FeatureState.save"
        /\ last'.self.id = 0
        /\ IsDefault(last'.self))
          => IF DefaultsOf(featureStates, last'.self.feature,
                           last'.self.environment) # {}
             THEN /\ last'.result = "ValidationError"
                  /\ featureStates' = featureStates
                  /\ fsv' = fsv
             ELSE /\ last'.result = "ok"
                  /\ DefaultsOf(featureStates', last'.self.feature,
                                last'.self.environment) # {}]_vars

\* C7: when Feature.save has completed, every environment of the feature's
\* project has exactly one default FeatureState for it, and if the save moved
\* the feature, none of its FeatureStates is in an environment of the project
\* it left.
C7_ReassignDefaults ==
    (last.op = "Feature.save" /\ last.result = "ok")
        => LET f == last.feature
               project == features[f].project
           IN  /\ \A e \in EnvironmentsOf(project) :
                     Cardinality(DefaultsOf(featureStates, f, e)) = 1
               /\ last.old_project \notin {None, project}
                     => \A r \in featureStates :
                           r.feature = f
                              => r.environment \notin EnvironmentsOf(last.old_project)

C7_Witness ==
    /\ last.op = "Feature.save" /\ last.result = "ok"
    /\ last.old_project = "P"
    /\ features[last.feature].project = "Q"
    /\ last.deleted = 3
    /\ Len(last.saves) = 1 /\ last.saves[1].created

\* C9: a FeatureState save leaves the row with a FeatureStateValue and leaves a
\* value the row already had as it was (type tag and slots), whatever the
\* feature's initial value has become and however the value was updated.
C9_ValueCreatedIfAbsent ==
    [][\A i \in DOMAIN last'.saves :
          LET id == last'.saves[i].id
          IN  /\ id \in DOMAIN fsv'
              /\ id \in DOMAIN fsv => fsv'[id] = fsv[id]]_vars

C9_Witness ==
    /\ last.op = "FeatureState.save" /\ last.result = "ok"
    /\ Len(last.saves) = 1 /\ ~last.saves[1].created
    /\ fsv[last.saves[1].id] \in TypedValues
    /\ features[last.self.feature].initial_value = "42"

\* C10 as amended: every completed FeatureState save, of a new row or of a
\* stored one, is followed by one webhook call for that row, and every call is
\* for a row that a save created.
C10_NotifyOnEverySave ==
    /\ webhooks = [i \in DOMAIN last.saves |-> last.saves[i].id]
    /\ \A i \in DOMAIN webhooks :
          webhooks[i] \in Ids(featureStates) /\ webhooks[i] < nextId

C10_Witness ==
    /\ last.op = "Feature.save" /\ last.result = "ok"
    /\ Len(last.saves) = 2
    /\ ~last.saves[1].created /\ ~last.saves[2].created
    /\ webhooks = <<last.saves[1].id, last.saves[2].id>>

\* C10 as stated: a save of an already stored FeatureState makes no webhook call.
C10_NotifyOnCreateOnly ==
    \A i \in DOMAIN last.saves :
        ~last.saves[i].created => last.saves[i].id \notin SeqRange(webhooks)

(***************************************************************************)
(* Claims about concurrent requests (SpecConc).                            *)
(***************************************************************************)

\* C6: however the requests creating environment defaults interleave, also
\* when each has passed the pre-check before any has inserted, no (environment,
\* feature) ever has more than one default row.
C6_OneDefaultPerEnvironment ==
    \A f \in Features, e \in Environments :
        Cardinality(DefaultsOf(featureStates, f, e)) <= 1

\* two requests had passed the pre-check for one default; the first inserted
\* it, the second's insert has just been rejected by the constraint
C6_Witness ==
    /\ last.op = "FeatureState.save" /\ last.result = "IntegrityError"
    /\ IsDefault(last.self)
    /\ \E w \in Workers :
          /\ workers[w].pc = "after"
          /\ workers[w].self = last.self
          /\ DefaultsOf(featureStates, last.self.feature, last.self.environment)
               = {[last.self EXCEPT !.id = workers[w].saves[1].id]}

\* C8: no step that readers can see deletes FeatureStates of a stored feature
\* without moving it to its new project, and none moves it without leaving a
\* default in every environment of the new project.
C8_AtomicReassignment ==
    [][\A f \in DOMAIN features :
          LET gone == {r \in featureStates \ featureStates' : r.feature = f}
              moved == features'[f].project # features[f].project
          IN  /\ gone # {} => moved
              /\ moved => \A e \in EnvironmentsOf(features'[f].project) :
                             DefaultsOf(featureStates', f, e) # {}]_vars

====
